---- MODULE Spec2Model ----
(***************************************************************************)
(* Model of streamlit_components/data_functions.py: the blob helpers       *)
(* read_csv_from_blob / list_blob_files and the BlobData frame.            *)
(*                                                                         *)
(* A pandas DataFrame is a record [cols, dtype, rows]: the ordered column  *)
(* labels, the dtype of every column and the rows (label -> cell).  A cell *)
(* is a record [t, n, f, s]: t is the kind of value ("nan" missing, "int", *)
(* "flt", "txt", "dt"), n the number (for "dt" the calendar date as        *)
(* yyyymmdd), f the nanoseconds after midnight of a "dt", s the characters *)
(* of a "txt".  Text is a sequence of one-character strings so that        *)
(* parsing and formatting are computed.                                    *)
(***************************************************************************)
EXTENDS Integers, Sequences, FiniteSets, TLC

(* ------------------------------ bounds -------------------------------- *)
MaxRows == 2        \* data rows of the CSV the frame is constructed from
MaxOps == 2         \* BlobData method calls after construction
MaxEnv == 2         \* changes another party makes to the container

(* ------------------------------- cells -------------------------------- *)
NaN == [t |-> "nan", n |-> 0, f |-> 0, s |-> <<>>]
IntC(i) == [t |-> "int", n |-> i, f |-> 0, s |-> <<>>]
FltC(i) == [t |-> "flt", n |-> i, f |-> 0, s |-> <<>>]
TxtC(chars) == [t |-> "txt", n |-> 0, f |-> 0, s |-> chars]
DtC(date, ns) == [t |-> "dt", n |-> date, f |-> ns, s |-> <<>>]

IsNa(c) == c.t = "nan"
IsNum(c) == c.t \in {"int", "flt"}

Digits == <<"0", "1", "2", "3", "4", "5", "6", "7", "8", "9">>
IsDigit(ch) == \E i \in 1..10 : Digits[i] = ch
DigitVal(ch) == (CHOOSE i \in 1..10 : Digits[i] = ch) - 1

RECURSIVE DigitsToNat(_)
DigitsToNat(chars) ==
    IF chars = <<>> THEN 0
    ELSE 10 * DigitsToNat(SubSeq(chars, 1, Len(chars) - 1)) + DigitVal(chars[Len(chars)])

\* int(text): decimal digits only (the texts of the model carry no sign,
\* blank or underscore).
IsIntText(chars) == Len(chars) > 0 /\ \A i \in 1..Len(chars) : IsDigit(chars[i])
ParseInt(chars) == DigitsToNat(chars)

DaysIn(y, m) ==
    IF m \in {4, 6, 9, 11} THEN 30
    ELSE IF m = 2 THEN (IF y % 4 = 0 /\ (y % 100 # 0 \/ y % 400 = 0) THEN 29 ELSE 28)
    ELSE 31

\* ISO text yyyy-mm-dd, the date format of the model's CSV fields.
IsDateText(chars) ==
    /\ Len(chars) = 10
    /\ chars[5] = "-" /\ chars[8] = "-"
    /\ \A i \in {1, 2, 3, 4, 6, 7, 9, 10} : IsDigit(chars[i])
    /\ LET y == DigitsToNat(SubSeq(chars, 1, 4))
           m == DigitsToNat(SubSeq(chars, 6, 7))
           d == DigitsToNat(SubSeq(chars, 9, 10))
       IN m \in 1..12 /\ d \in 1..DaysIn(y, m)
ParseDate(chars) ==
    DigitsToNat(SubSeq(chars, 1, 4)) * 10000
        + DigitsToNat(SubSeq(chars, 6, 7)) * 100 + DigitsToNat(SubSeq(chars, 9, 10))

(* ------------------------- sequence helpers --------------------------- *)
Range(seq) == {seq[i] : i \in 1..Len(seq)}
Contains(seq, x) == \E i \in 1..Len(seq) : seq[i] = x

RECURSIVE SelectIdx(_, _, _)
\* the indices i..Len(flags) whose flag is TRUE, in order
SelectIdx(flags, i, acc) ==
    IF i > Len(flags) THEN acc
    ELSE SelectIdx(flags, i + 1, IF flags[i] THEN Append(acc, i) ELSE acc)

RECURSIVE Dedup(_, _, _)
\* first occurrences of seq[i..], in order
Dedup(seq, i, acc) ==
    IF i > Len(seq) THEN acc
    ELSE Dedup(seq, i + 1, IF Contains(acc, seq[i]) THEN acc ELSE Append(acc, seq[i]))

RECURSIVE SumSeq(_)
SumSeq(seq) == IF seq = <<>> THEN 0 ELSE seq[1] + SumSeq(Tail(seq))

(* ------------------------------ frames -------------------------------- *)
Frame(cols, dtype, rows) == [cols |-> cols, dtype |-> dtype, rows |-> rows]
NRows(df) == Len(df.rows)
HasCol(df, c) == Contains(df.cols, c)
Column(df, c) == [i \in 1..NRows(df) |-> df.rows[i][c]]

\* df[c] = series: assigns a whole column, appended at the end when new
SetColumn(df, c, dt, series) ==
    LET cs == IF HasCol(df, c) THEN df.cols ELSE Append(df.cols, c)
        S == Range(cs)
    IN Frame(cs,
             [k \in S |-> IF k = c THEN dt ELSE df.dtype[k]],
             [i \in 1..NRows(df) |-> [k \in S |-> IF k = c THEN series[i] ELSE df.rows[i][k]]])

\* df[mask]: a new frame with the rows whose flag is set
TakeRows(df, flags) ==
    LET idx == SelectIdx(flags, 1, <<>>)
    IN Frame(df.cols, df.dtype, [j \in 1..Len(idx) |-> df.rows[idx[j]]])

(* ------------------------- the CSV of the blob ------------------------ *)
Header == <<"g", "x", "d">>
A == <<"a">>
B == <<"b">>
AB == <<"a", "b">>
Date1 == <<"2", "0", "2", "1", "-", "0", "3", "-", "0", "5">>
Date2 == <<"2", "0", "2", "2", "-", "1", "1", "-", "3", "0">>
Empty == <<>>

CsvRow(g, x, d) == [c \in Range(Header) |-> IF c = "g" THEN g ELSE IF c = "x" THEN x ELSE d]
CsvRows ==
    { CsvRow(A, <<"1">>, Date1), CsvRow(A, <<"2">>, Date2), CsvRow(B, Empty, Date1),
      CsvRow(Empty, <<"1">>, AB), CsvRow(B, <<"2">>, Empty) }

RECURSIVE SeqsUpTo(_, _)
SeqsUpTo(S, n) ==
    IF n = 0 THEN {<<>>}
    ELSE LET shorter == SeqsUpTo(S, n - 1)
         IN shorter \cup {Append(q, x) : q \in {p \in shorter : Len(p) = n - 1}, x \in S}

\* pd.read_csv: an empty field is missing; a column whose fields are all
\* integers is int64, one of integers and missing fields float64, any other
\* column holds its texts (object).
CsvDtype(fields) ==
    IF \A i \in 1..Len(fields) : fields[i] = Empty \/ IsIntText(fields[i])
    THEN (IF Len(fields) > 0 /\ \A i \in 1..Len(fields) : fields[i] # Empty
          THEN "int64"
          ELSE IF Len(fields) > 0 THEN "float64" ELSE "object")
    ELSE "object"
CsvCell(dt, field) ==
    IF field = Empty THEN NaN
    ELSE IF dt = "int64" THEN IntC(ParseInt(field))
    ELSE IF dt = "float64" THEN FltC(ParseInt(field))
    ELSE TxtC(field)
read_csv(lines) ==
    LET S == Range(Header)
        dts == [c \in S |-> CsvDtype([i \in 1..Len(lines) |-> lines[i][c]])]
    IN Frame(Header, dts, [i \in 1..Len(lines) |-> [c \in S |-> CsvCell(dts[c], lines[i][c])]])

(* --------------------- pandas pieces the methods use ------------------ *)
\* elementwise series == value: a missing cell equals nothing, numbers compare
\* by value, texts by characters, a date-time is compared with the date a
\* text value parses to, everything else is unequal
CellEq(c, v) ==
    IF IsNa(c) \/ IsNa(v) THEN FALSE
    ELSE IF IsNum(c) /\ IsNum(v) THEN c.n = v.n
    ELSE IF c.t = "txt" /\ v.t = "txt" THEN c.s = v.s
    ELSE IF c.t = "dt" /\ v.t = "txt" THEN IsDateText(v.s) /\ c.n = ParseDate(v.s) /\ c.f = 0
    ELSE FALSE

\* Series.fillna(value): the missing cells take the value, stored as the
\* column stores numbers; a text put into a numeric column makes it object
FillCell(dt, value) == IF dt = "float64" /\ value.t = "int" THEN FltC(value.n) ELSE value
FillDtype(dt, series, value) ==
    IF value.t = "txt" /\ dt # "object" /\ \E i \in 1..Len(series) : IsNa(series[i])
    THEN "object" ELSE dt
\* variant: every cell takes the value, not only the missing ones
fillna_every_cell(dt, series, value) == [i \in 1..Len(series) |-> FillCell(dt, value)]
fillna(dt, series, value) ==
    [i \in 1..Len(series) |-> IF IsNa(series[i]) THEN FillCell(dt, value) ELSE series[i]]

\* result of a method call: the frame it leaves, the error it raised ("" when
\* it returned) and the list it returned
Res(df, err, ret) == [df |-> df, err |-> err, ret |-> ret]

(* --------------------------- BlobData methods -------------------------- *)
collect_unique_column_values(df, column_name) ==
    IF ~HasCol(df, column_name) THEN Res(df, "ValueError", <<>>)
    ELSE Res(df, "", Dedup(Column(df, column_name), 1, <<>>))

RECURSIVE fill_nan(_, _, _)
\* the loop over columns: each present column is assigned before the next
\* label is looked at, an absent label raises
fill_nan(df, columns, fill_value) ==
    IF columns = <<>> THEN Res(df, "", <<>>)
    ELSE IF HasCol(df, Head(columns))
    THEN LET c == Head(columns)
             ser == Column(df, c)
         IN fill_nan(SetColumn(df, c, FillDtype(df.dtype[c], ser, fill_value),
                               fillna(df.dtype[c], ser, fill_value)),
                     Tail(columns), fill_value)
    ELSE Res(df, "ValueError", <<>>)

\* variant: the comparison of filter_out_data (!=) in place of ==
filter_by_column_unequal(df, column, filter_value) ==
    IF ~HasCol(df, column) THEN Res(df, "KeyError", <<>>)
    ELSE Res(TakeRows(df, [i \in 1..NRows(df) |-> ~CellEq(df.rows[i][column], filter_value)]),
             "", <<>>)

filter_by_column(df, column, filter_value) ==
    IF ~HasCol(df, column) THEN Res(df, "KeyError", <<>>)
    ELSE Res(TakeRows(df, [i \in 1..NRows(df) |-> CellEq(df.rows[i][column], filter_value)]),
             "", <<>>)

\* variant: an absent column compares unequal to nothing and raises nothing
filter_out_data_lenient(df, column, filter_value) ==
    IF ~HasCol(df, column) THEN Res(TakeRows(df, [i \in 1..NRows(df) |-> FALSE]), "", <<>>)
    ELSE Res(TakeRows(df, [i \in 1..NRows(df) |-> ~CellEq(df.rows[i][column], filter_value)]),
             "", <<>>)

filter_out_data(df, column, filter_value) ==
    IF ~HasCol(df, column) THEN Res(df, "KeyError", <<>>)
    ELSE Res(TakeRows(df, [i \in 1..NRows(df) |-> ~CellEq(df.rows[i][column], filter_value)]),
             "", <<>>)

\* the text of a column label (labels are one character long)
LabelText(c) == TxtC(<<c>>)

\* dtype of the stacked value columns: a common dtype stays, integers and
\* floats together are floats, anything else is object
MeltDtype(dts) ==
    IF Cardinality(dts) = 1 THEN CHOOSE d \in dts : TRUE
    ELSE IF dts \subseteq {"int64", "float64"} THEN "float64"
    ELSE "object"
MeltCell(dt, c) == IF dt = "float64" /\ c.t = "int" THEN FltC(c.n) ELSE c

\* variant: the id cells are repeated row by row instead of block by block
melt_dataframe_repeat(df, id_vars, value_vars, var_name, value_name) ==
    IF HasCol(df, value_name) THEN Res(df, "ValueError", <<>>)
    ELSE IF \E c \in Range(id_vars) \cup Range(value_vars) : ~HasCol(df, c)
    THEN Res(df, "KeyError", <<>>)
    ELSE
      LET N == NRows(df)
          K == Len(value_vars)
          cs == id_vars \o <<var_name, value_name>>
          S == Range(cs)
          vdt == MeltDtype({df.dtype[c] : c \in Range(value_vars)})
          cell(j, i, k) ==
              IF k = value_name THEN MeltCell(vdt, df.rows[i][value_vars[j]])
              ELSE IF k = var_name THEN LabelText(value_vars[j])
              ELSE df.rows[((((j - 1) * N) + i - 1) \div K) + 1][k]
      IN Res(Frame(cs,
                   [k \in S |-> IF k = value_name THEN vdt
                                ELSE IF k = var_name THEN "object" ELSE df.dtype[k]],
                   [r \in 1..(N * K) |->
                       [k \in S |-> cell(((r - 1) \div N) + 1, ((r - 1) % N) + 1, k)]]),
             "", <<>>)

\* DataFrame.melt: value_name must be new, every listed label present; the
\* output stacks the value columns one after the other, each block repeating
\* the id cells of the input rows in order
melt_dataframe(df, id_vars, value_vars, var_name, value_name) ==
    IF HasCol(df, value_name) THEN Res(df, "ValueError", <<>>)
    ELSE IF \E c \in Range(id_vars) \cup Range(value_vars) : ~HasCol(df, c)
    THEN Res(df, "KeyError", <<>>)
    ELSE
      LET N == NRows(df)
          cs == id_vars \o <<var_name, value_name>>
          S == Range(cs)
          vdt == MeltDtype({df.dtype[c] : c \in Range(value_vars)})
          cell(j, i, k) ==
              IF k = value_name THEN MeltCell(vdt, df.rows[i][value_vars[j]])
              ELSE IF k = var_name THEN LabelText(value_vars[j])
              ELSE df.rows[i][k]
      IN Res(Frame(cs,
                   [k \in S |-> IF k = value_name THEN vdt
                                ELSE IF k = var_name THEN "object" ELSE df.dtype[k]],
                   [r \in 1..(N * Len(value_vars)) |->
                       [k \in S |-> cell(((r - 1) \div N) + 1, ((r - 1) % N) + 1, k)]]),
             "", <<>>)

\* order of group keys: numbers before date-times before texts, texts by
\* their characters
Alphabet == <<"-", ".">> \o Digits \o <<"a", "b", "d", "g", "k", "n", "v", "x", "y", "z">>
CharRank(ch) == CHOOSE i \in 1..Len(Alphabet) : Alphabet[i] = ch
RECURSIVE TextLt(_, _)
TextLt(a, b) ==
    IF b = <<>> THEN FALSE
    ELSE IF a = <<>> THEN TRUE
    ELSE IF a[1] # b[1] THEN CharRank(a[1]) < CharRank(b[1])
    ELSE TextLt(Tail(a), Tail(b))
KindRank(c) == IF IsNum(c) THEN 0 ELSE IF c.t = "dt" THEN 1 ELSE 2
CellLt(a, b) ==
    IF KindRank(a) # KindRank(b) THEN KindRank(a) < KindRank(b)
    ELSE IF a.t = "txt" THEN TextLt(a.s, b.s)
    ELSE a.n < b.n \/ (a.n = b.n /\ a.f < b.f)
RECURSIVE KeyLt(_, _)
KeyLt(a, b) ==
    IF a = <<>> THEN FALSE
    ELSE IF CellLt(a[1], b[1]) THEN TRUE
    ELSE IF CellLt(b[1], a[1]) THEN FALSE
    ELSE KeyLt(Tail(a), Tail(b))
RECURSIVE SortKeys(_)
SortKeys(keys) ==
    IF keys = <<>> THEN <<>>
    ELSE LET m == CHOOSE i \in 1..Len(keys) : \A j \in 1..Len(keys) : ~KeyLt(keys[j], keys[i])
         IN <<keys[m]>> \o SortKeys([j \in 1..(Len(keys) - 1) |->
                                        IF j < m THEN keys[j] ELSE keys[j + 1]])

KeyOf(row, groupby_columns) == [j \in 1..Len(groupby_columns) |-> row[groupby_columns[j]]]
\* groupby drops the rows with a missing key cell (dropna defaults to True)
GroupKeys(df, groupby_columns) ==
    LET ks == [i \in 1..NRows(df) |-> KeyOf(df.rows[i], groupby_columns)]
        kept == SelectIdx([i \in 1..NRows(df) |-> \A j \in 1..Len(groupby_columns) : ~IsNa(ks[i][j])],
                          1, <<>>)
    IN SortKeys(Dedup([j \in 1..Len(kept) |-> ks[kept[j]]], 1, <<>>))
\* 'sum' of a numeric column over one group: missing cells are skipped
GroupSum(df, groupby_columns, key, c) ==
    LET n == SumSeq([i \in 1..NRows(df) |->
                        IF KeyOf(df.rows[i], groupby_columns) = key /\ ~IsNa(df.rows[i][c])
                        THEN df.rows[i][c].n ELSE 0])
    IN IF df.dtype[c] \in {"int64", "int32"} THEN IntC(n) ELSE FltC(n)

\* df.groupby(groupby_columns, as_index=False)[agg_columns].agg('sum')
aggregate_dataframe(df, groupby_columns, agg_columns) ==
    IF \E c \in Range(groupby_columns) \cup Range(agg_columns) : ~HasCol(df, c)
    THEN Res(df, "KeyError", <<>>)
    ELSE
      LET keys == GroupKeys(df, groupby_columns)
          cs == groupby_columns \o agg_columns
          S == Range(cs)
          pos(k) == CHOOSE j \in 1..Len(groupby_columns) : groupby_columns[j] = k
      IN Res(Frame(cs, [k \in S |-> df.dtype[k]],
                   [r \in 1..Len(keys) |->
                       [k \in S |-> IF Contains(groupby_columns, k) THEN keys[r][pos(k)]
                                    ELSE GroupSum(df, groupby_columns, keys[r], k)]]),
             "", <<>>)

\* str(number)
RECURSIVE FormatNat(_)
FormatNat(n) == IF n < 10 THEN <<Digits[n + 1]>> ELSE FormatNat(n \div 10) \o <<Digits[(n % 10) + 1]>>
NanText == <<"n", "a", "n">>
\* float(text): digits, or digits followed by ".0" (the floats of the model
\* are whole numbers), or "nan"
IsFloatText(chars) ==
    \/ IsIntText(chars)
    \/ /\ Len(chars) >= 3
       /\ chars[Len(chars) - 1] = "." /\ chars[Len(chars)] = "0"
       /\ IsIntText(SubSeq(chars, 1, Len(chars) - 2))
ParseFloat(chars) ==
    IF IsIntText(chars) THEN DigitsToNat(chars) ELSE DigitsToNat(SubSeq(chars, 1, Len(chars) - 2))

EpochDate == 19700101
\* pd.to_datetime(series) of one cell: a number counts nanoseconds from the
\* epoch, a text is parsed as a date, a missing cell stays missing (NaT)
CanDatetime(c) == c.t # "txt" \/ IsDateText(c.s)
ToDatetime(c) ==
    IF IsNum(c) THEN DtC(EpochDate, c.n)
    ELSE IF c.t = "txt" THEN DtC(ParseDate(c.s), 0)
    ELSE c

\* self.df[column_name] = pd.to_datetime(self.df[column_name]): the right-hand
\* side is evaluated, and may raise, before the column is assigned
convert_column_to_datetime(df, column_name) ==
    IF ~HasCol(df, column_name) THEN Res(df, "KeyError", <<>>)
    ELSE LET ser == Column(df, column_name)
         IN IF \E i \in 1..Len(ser) : ~CanDatetime(ser[i]) THEN Res(df, "ValueError", <<>>)
            ELSE Res(SetColumn(df, column_name, "datetime64",
                               [i \in 1..Len(ser) |-> ToDatetime(ser[i])]),
                     "", <<>>)

YearOf(c) == c.n \div 10000
\* self.df[year_column_name] = self.df[date_column_name].dt.year: .dt raises
\* on a column that is not datetime64; the year of NaT is missing, which makes
\* the new column float64
create_year_column(df, date_column_name, year_column_name) ==
    IF ~HasCol(df, date_column_name) THEN Res(df, "KeyError", <<>>)
    ELSE IF df.dtype[date_column_name] # "datetime64" THEN Res(df, "AttributeError", <<>>)
    ELSE LET ser == Column(df, date_column_name)
             whole == \A i \in 1..Len(ser) : ~IsNa(ser[i])
         IN Res(SetColumn(df, year_column_name, IF whole THEN "int32" ELSE "float64",
                          [i \in 1..Len(ser) |->
                              IF IsNa(ser[i]) THEN NaN
                              ELSE IF whole THEN IntC(YearOf(ser[i])) ELSE FltC(YearOf(ser[i]))]),
                "", <<>>)

\* Series.astype(column_type) of one cell, column_type one of int, float, str
CanCast(c, column_type) ==
    IF column_type = "int" THEN IsNum(c) \/ (c.t = "txt" /\ IsIntText(c.s))
    ELSE IF column_type = "float" THEN c.t # "txt" \/ IsFloatText(c.s) \/ c.s = NanText
    ELSE TRUE
CastCell(c, column_type) ==
    IF column_type = "int" THEN IntC(IF c.t = "txt" THEN ParseInt(c.s) ELSE c.n)
    ELSE IF column_type = "float"
    THEN (IF IsNa(c) \/ (c.t = "txt" /\ c.s = NanText) THEN NaN
          ELSE FltC(IF c.t = "txt" THEN ParseFloat(c.s) ELSE c.n))
    ELSE (IF IsNa(c) THEN TxtC(NanText)
          ELSE IF c.t = "int" THEN TxtC(FormatNat(c.n))
          ELSE IF c.t = "flt" THEN TxtC(FormatNat(c.n) \o <<".", "0">>)
          ELSE c)
CastDtype(column_type) ==
    IF column_type = "int" THEN "int64" ELSE IF column_type = "float" THEN "float64" ELSE "object"

\* variant: the cells are converted one by one in the held frame, so the cells
\* before the first one that cannot be converted stay converted
RECURSIVE CastPrefix(_, _, _)
CastPrefix(ser, column_type, i) ==
    IF i > Len(ser) \/ ~CanCast(ser[i], column_type) THEN ser
    ELSE CastPrefix([ser EXCEPT ![i] = CastCell(ser[i], column_type)], column_type, i + 1)
cast_column_cellwise(df, column_name, column_type) ==
    IF ~HasCol(df, column_name) THEN Res(df, "KeyError", <<>>)
    ELSE LET ser == Column(df, column_name)
         IN IF \E i \in 1..Len(ser) : ~CanCast(ser[i], column_type)
            THEN Res(SetColumn(df, column_name, df.dtype[column_name],
                               CastPrefix(ser, column_type, 1)),
                     "ValueError", <<>>)
            ELSE Res(SetColumn(df, column_name, CastDtype(column_type),
                               [i \in 1..Len(ser) |-> CastCell(ser[i], column_type)]),
                     "", <<>>)

\* self.df[column_name] = self.df[column_name].astype(column_type): astype
\* raises, before the assignment, on the first cell it cannot convert
cast_column(df, column_name, column_type) ==
    IF ~HasCol(df, column_name) THEN Res(df, "KeyError", <<>>)
    ELSE LET ser == Column(df, column_name)
         IN IF \E i \in 1..Len(ser) : ~CanCast(ser[i], column_type) THEN Res(df, "ValueError", <<>>)
            ELSE Res(SetColumn(df, column_name, CastDtype(column_type),
                               [i \in 1..Len(ser) |-> CastCell(ser[i], column_type)]),
                     "", <<>>)

(* ------------------------------- state -------------------------------- *)
VARIABLES
    heap,        \* the DataFrame objects: object id -> frame
    self_df,     \* BlobData.df: the id of the frame the BlobData holds
    snap,        \* the id a caller got from return_dataframe (0: none yet)
    snap_orig,   \* the frame that caller saw when it got it
    pre,         \* the held frame before the latest method call
    last,        \* the latest method call: arguments, error, returned list
    nops,        \* method calls made
    pc,          \* blob helper call: position in the function
    call,        \* blob helper call: function and arguments
    client,      \* blob helper call: a BlobServiceClient was created
    requests,    \* requests the provider has received from the call
    container,   \* the provider's container: descriptors, in iteration order
    blob_files,  \* list_blob_files: result of the first listing
    blob_filenames, \* list_blob_files: names from the second listing
    nenv,        \* changes made to the container by another party
    plot_df,        \* PlotlyPlotter.df
    default_kwargs, \* PlotlyPlotter.default_kwargs
    default_orig,   \* the kwargs the PlotlyPlotter was constructed with
    fig,            \* PlotlyPlotter.fig (NoneFig: None)
    nfig,           \* figures the charting library has created
    plot_last,      \* the latest PlotlyPlotter call: options, px call, outcome
    nplots          \* PlotlyPlotter method calls made

frame_vars == <<heap, self_df, snap, snap_orig, pre, last, nops>>
blob_vars == <<pc, call, client, requests, container, blob_files, blob_filenames, nenv>>
plot_vars == <<plot_df, default_kwargs, default_orig, fig, nfig, plot_last, nplots>>
vars == <<heap, self_df, snap, snap_orig, pre, last, nops,
          pc, call, client, requests, container, blob_files, blob_filenames, nenv,
          plot_df, default_kwargs, default_orig, fig, nfig, plot_last, nplots>>

(* ---------------------- PlotlyPlotter: no plotter ---------------------- *)
NoKwargs == [k \in {} |-> ""]
NoneFig == [id |-> 0, kind |-> "None", params |-> NoKwargs, layout |-> <<>>]
NoPlotCall == [op |-> "init", kwargs |-> NoKwargs, metric |-> "", called |-> FALSE,
               passed |-> NoKwargs, err |-> "", ret |-> 0]
NoPlotter ==
    /\ plot_df = Frame(<<>>, <<>>, <<>>)
    /\ default_kwargs = NoKwargs
    /\ default_orig = NoKwargs
    /\ fig = NoneFig
    /\ nfig = 0
    /\ plot_last = NoPlotCall
    /\ nplots = 0

ObjIds == {1, 2}
NoFrame == Frame(<<>>, <<>>, <<>>)
df == heap[self_df]

NoCall == [op |-> "init", cols |-> <<>>, cols2 |-> <<>>, v |-> NaN, ty |-> "",
           err |-> "", ret |-> <<>>]
CallRec(op, cols, cols2, v, ty, res) ==
    [op |-> op, cols |-> cols, cols2 |-> cols2, v |-> v, ty |-> ty,
     err |-> res.err, ret |-> res.ret]

\* a method that assigns into self.df (self.df[c] = ...) changes the object
\* every holder of it sees
InPlace(rec, res) ==
    /\ nops < MaxOps
    /\ pre' = df
    /\ last' = rec
    /\ nops' = nops + 1
    /\ heap' = [heap EXCEPT ![self_df] = res.df]
    /\ UNCHANGED <<self_df, snap, snap_orig>>

\* a method that rebinds self.df (self.df = ...) leaves the old object as it
\* was and holds a new one; an error raised by the right-hand side rebinds
\* nothing.  The new object takes the id no holder refers to.
Rebind(rec, res) ==
    /\ nops < MaxOps
    /\ pre' = df
    /\ last' = rec
    /\ nops' = nops + 1
    /\ IF res.err # "" THEN UNCHANGED <<heap, self_df>>
       ELSE LET new == IF snap = self_df THEN 3 - self_df ELSE self_df
            IN /\ self_df' = new
               /\ heap' = [heap EXCEPT ![new] = res.df]
    /\ UNCHANGED <<snap, snap_orig>>

\* a method that only reads self.df
ReadOnly(rec) ==
    /\ nops < MaxOps
    /\ pre' = df
    /\ last' = rec
    /\ nops' = nops + 1
    /\ UNCHANGED <<heap, self_df, snap, snap_orig>>

(* ------------------------ inputs of the methods ----------------------- *)
ColumnArgs == {"g", "x", "d", "z"}
FillColumns == {<<"x">>, <<"g">>, <<"g", "x">>, <<"x", "z">>, <<"z", "x">>, <<"x", "z", "g">>}
FillValues == {IntC(0), TxtC(A)}
FilterValues == {IntC(1), TxtC(A), TxtC(Date1)}
MeltIdVars == {<<"g">>, <<>>}
MeltValueVars == {<<"x", "d">>, <<"x">>, <<"x", "z">>}
GroupbyColumns == {<<"g">>, <<"g", "d">>, <<"z">>}
AggColumns == {<<"x">>}
YearArgs == {<<"d", "y">>, <<"x", "y">>, <<"z", "y">>, <<"d", "x">>}
ColumnTypes == {"int", "float", "str"}

\* the present columns among cols hold no date-time
NoDatetime(f, cols) ==
    \A c \in Range(cols) : HasCol(f, c) =>
        /\ f.dtype[c] # "datetime64"
        /\ \A i \in 1..NRows(f) : f.rows[i][c].t # "dt"
\* the column, when present, is numeric
Numeric(f, cols) ==
    \A c \in Range(cols) : HasCol(f, c) => f.dtype[c] \in {"int64", "int32", "float64"}
\* an object column holds texts and missing cells only
TextOnly(f, c) ==
    (HasCol(f, c) /\ f.dtype[c] = "object") => \A i \in 1..NRows(f) : f.rows[i][c].t \in {"txt", "nan"}

(* ------------------------------- actions ------------------------------ *)
Init ==
    /\ \E lines \in SeqsUpTo(CsvRows, MaxRows) : heap = [o \in ObjIds |-> IF o = 1 THEN read_csv(lines) ELSE NoFrame]
    /\ self_df = 1
    /\ snap = 0
    /\ snap_orig = NoFrame
    /\ pre = NoFrame
    /\ last = NoCall
    /\ nops = 0
    /\ pc = "idle"
    /\ call = [fn |-> "", args |-> <<>>]
    /\ client = FALSE
    /\ requests = 0
    /\ container = <<>>
    /\ blob_files = <<>>
    /\ blob_filenames = <<>>
    /\ nenv = 0
    /\ NoPlotter

CollectUnique ==
    /\ \E c \in ColumnArgs :
         ReadOnly(CallRec("collect_unique_column_values", <<c>>, <<>>, NaN, "",
                          collect_unique_column_values(df, c)))
    /\ UNCHANGED <<blob_vars, plot_vars>>

FillNan ==
    /\ \E cols \in FillColumns, v \in FillValues :
         /\ NoDatetime(df, cols)
         /\ LET res == fill_nan(df, cols, v)
            IN InPlace(CallRec("fill_nan", cols, <<>>, v, "", res), res)
    /\ UNCHANGED <<blob_vars, plot_vars>>

FilterByColumn ==
    /\ \E c \in ColumnArgs, v \in FilterValues :
         LET res == filter_by_column(df, c, v)
         IN Rebind(CallRec("filter_by_column", <<c>>, <<>>, v, "", res), res)
    /\ UNCHANGED <<blob_vars, plot_vars>>

FilterOutData ==
    /\ \E c \in ColumnArgs, v \in FilterValues :
         LET res == filter_out_data(df, c, v)
         IN Rebind(CallRec("filter_out_data", <<c>>, <<>>, v, "", res), res)
    /\ UNCHANGED <<blob_vars, plot_vars>>

MeltDataframe ==
    /\ \E ids \in MeltIdVars, vals \in MeltValueVars :
         LET res == melt_dataframe(df, ids, vals, "k", "v")
         IN Rebind(CallRec("melt_dataframe", ids, vals, NaN, "", res), res)
    /\ UNCHANGED <<blob_vars, plot_vars>>

AggregateDataframe ==
    /\ \E gs \in GroupbyColumns, as \in AggColumns :
         /\ Numeric(df, as)
         /\ LET res == aggregate_dataframe(df, gs, as)
            IN Rebind(CallRec("aggregate_dataframe", gs, as, NaN, "sum", res), res)
    /\ UNCHANGED <<blob_vars, plot_vars>>

ConvertColumnToDatetime ==
    /\ \E c \in ColumnArgs :
         /\ TextOnly(df, c)
         /\ LET res == convert_column_to_datetime(df, c)
            IN InPlace(CallRec("convert_column_to_datetime", <<c>>, <<>>, NaN, "", res), res)
    /\ UNCHANGED <<blob_vars, plot_vars>>

CreateYearColumn ==
    /\ \E a \in YearArgs :
         LET res == create_year_column(df, a[1], a[2])
         IN InPlace(CallRec("create_year_column", <<a[1]>>, <<a[2]>>, NaN, "", res), res)
    /\ UNCHANGED <<blob_vars, plot_vars>>

CastColumn ==
    /\ \E c \in ColumnArgs, ty \in ColumnTypes :
         /\ NoDatetime(df, <<c>>)
         /\ LET res == cast_column(df, c, ty)
            IN InPlace(CallRec("cast_column", <<c>>, <<>>, NaN, ty, res), res)
    /\ UNCHANGED <<blob_vars, plot_vars>>

\* return self.df: the caller holds the very object the BlobData holds
ReturnDataframe ==
    /\ nops < MaxOps
    /\ snap' = self_df
    /\ snap_orig' = df
    /\ heap' = [o \in ObjIds |-> IF o = self_df THEN heap[o] ELSE NoFrame]
    /\ pre' = df
    /\ last' = CallRec("return_dataframe", <<>>, <<>>, NaN, "", Res(df, "", <<>>))
    /\ nops' = nops + 1
    /\ UNCHANGED self_df
    /\ UNCHANGED <<blob_vars, plot_vars>>

Next ==
    \/ CollectUnique
    \/ FillNan
    \/ FilterByColumn
    \/ FilterOutData
    \/ MeltDataframe
    \/ AggregateDataframe
    \/ ConvertColumnToDatetime
    \/ CreateYearColumn
    \/ CastColumn
    \/ ReturnDataframe

Spec == Init /\ [][Next]_vars

(* ---------------- read_csv_from_blob and list_blob_files --------------- *)
MaxBlobs == 2       \* blobs in the container when a call starts

\* a Python argument value: its type and, for a str, its text
Str(text) == [ty |-> "str", s |-> text]
NonStr(ty) == [ty |-> ty, s |-> ""]
isinstance_str(value) == value.ty = "str"

ConnectionStrings == {Str("conn"), NonStr("NoneType")}
ContainerNames == {Str("data"), NonStr("int")}
BlobNames == {"a.csv", "b.csv", "c.csv"}
BlobNameArgs == {Str("a.csv"), Str("b.csv"), NonStr("NoneType")}

Arg(name, value) == [name |-> name, value |-> value]
\* for arg_name, arg_value in locals().items(): the first parameter, in
\* declaration order, that is not a str ("" when every one is)
RECURSIVE FirstNonStr(_)
FirstNonStr(args) ==
    IF args = <<>> THEN ""
    ELSE IF ~isinstance_str(Head(args).value) THEN Head(args).name
    ELSE FirstNonStr(Tail(args))

Descriptor(name, modified) == [name |-> name, last_modified |-> modified]
Names(files) == [i \in 1..Len(files) |-> files[i].name]
Distinct(seq) == \A i, j \in 1..Len(seq) : i # j => seq[i] # seq[j]
InsertAt(seq, i, x) == SubSeq(seq, 1, i - 1) \o <<x>> \o SubSeq(seq, i, Len(seq))
RemoveAt(seq, i) == SubSeq(seq, 1, i - 1) \o SubSeq(seq, i + 1, Len(seq))

InitBlob ==
    /\ heap = [o \in ObjIds |-> NoFrame]
    /\ self_df = 1
    /\ snap = 0
    /\ snap_orig = NoFrame
    /\ pre = NoFrame
    /\ last = NoCall
    /\ nops = 0
    /\ pc = "idle"
    /\ call = [fn |-> "", args |-> <<>>]
    /\ client = FALSE
    /\ requests = 0
    /\ \E names \in SeqsUpTo(BlobNames, MaxBlobs) :
         /\ Distinct(names)
         /\ container = [i \in 1..Len(names) |-> Descriptor(names[i], 0)]
    /\ blob_files = <<>>
    /\ blob_filenames = <<>>
    /\ nenv = 0
    /\ NoPlotter

\* a caller invokes one of the two functions
CallListBlobFiles ==
    /\ pc = "idle"
    /\ \E cs \in ConnectionStrings, cn \in ContainerNames :
         call' = [fn |-> "list_blob_files",
                  args |-> <<Arg("connection_string", cs), Arg("container_name", cn)>>]
    /\ pc' = "validate"
    /\ client' = FALSE
    /\ requests' = 0
    /\ blob_files' = <<>>
    /\ blob_filenames' = <<>>
    /\ UNCHANGED <<container, nenv>>
    /\ UNCHANGED <<frame_vars, plot_vars>>

CallReadCsvFromBlob ==
    /\ pc = "idle"
    /\ \E cs \in ConnectionStrings, cn \in ContainerNames, bn \in BlobNameArgs :
         call' = [fn |-> "read_csv_from_blob",
                  args |-> <<Arg("connection_string", cs), Arg("container_name", cn),
                             Arg("blob_name", bn)>>]
    /\ pc' = "validate"
    /\ client' = FALSE
    /\ requests' = 0
    /\ blob_files' = <<>>
    /\ blob_filenames' = <<>>
    /\ UNCHANGED <<container, nenv>>
    /\ UNCHANGED <<frame_vars, plot_vars>>

\* variant: only the first parameter is checked
ValidateArgs_first_only(args) ==
    IF isinstance_str(Head(args).value) THEN "client" ELSE "TypeError"
\* the isinstance loop at the top of both functions
ValidateArgs(args) == IF FirstNonStr(args) = "" THEN "client" ELSE "TypeError"
Validate ==
    /\ pc = "validate"
    /\ pc' = ValidateArgs(call.args)
    /\ UNCHANGED <<call, client, requests, container, blob_files, blob_filenames, nenv>>
    /\ UNCHANGED <<frame_vars, plot_vars>>

\* BlobServiceClient.from_connection_string and get_container_client /
\* get_blob_client: objects are built, nothing is sent
CreateClient ==
    /\ pc = "client"
    /\ client' = TRUE
    /\ pc' = IF call.fn = "list_blob_files" THEN "list_files" ELSE "download"
    /\ UNCHANGED <<call, requests, container, blob_files, blob_filenames, nenv>>
    /\ UNCHANGED <<frame_vars, plot_vars>>

\* blob_files = [file for file in container_client.list_blobs()]
ListFiles ==
    /\ pc = "list_files"
    /\ blob_files' = container
    /\ requests' = requests + 1
    /\ pc' = "list_names"
    /\ UNCHANGED <<call, client, container, blob_filenames, nenv>>
    /\ UNCHANGED <<frame_vars, plot_vars>>

\* blob_filenames = [file['name'] for file in container_client.list_blobs()]
ListNames ==
    /\ pc = "list_names"
    /\ blob_filenames' = Names(container)
    /\ requests' = requests + 1
    /\ pc' = "done"
    /\ UNCHANGED <<call, client, container, blob_files, nenv>>
    /\ UNCHANGED <<frame_vars, plot_vars>>

\* blob_client.download_blob(): the provider's error for a missing blob
\* propagates
DownloadBlob ==
    /\ pc = "download"
    /\ requests' = requests + 1
    /\ pc' = IF Contains(Names(container), call.args[3].value.s) THEN "done"
             ELSE "ResourceNotFoundError"
    /\ UNCHANGED <<call, client, container, blob_files, blob_filenames, nenv>>
    /\ UNCHANGED <<frame_vars, plot_vars>>

\* the call is over (returned or raised); the caller may call again
Return ==
    /\ pc \in {"done", "TypeError", "ResourceNotFoundError"}
    /\ pc' = "idle"
    /\ UNCHANGED <<call, client, requests, container, blob_files, blob_filenames, nenv>>
    /\ UNCHANGED <<frame_vars, plot_vars>>

\* another party changes the container at any moment
EnvAdd ==
    /\ nenv < MaxEnv
    /\ \E n \in BlobNames, i \in 1..(Len(container) + 1) :
         /\ ~Contains(Names(container), n)
         /\ container' = InsertAt(container, i, Descriptor(n, nenv + 1))
    /\ nenv' = nenv + 1
    /\ UNCHANGED <<pc, call, client, requests, blob_files, blob_filenames>>
    /\ UNCHANGED <<frame_vars, plot_vars>>

EnvDelete ==
    /\ nenv < MaxEnv
    /\ \E i \in 1..Len(container) : container' = RemoveAt(container, i)
    /\ nenv' = nenv + 1
    /\ UNCHANGED <<pc, call, client, requests, blob_files, blob_filenames>>
    /\ UNCHANGED <<frame_vars, plot_vars>>

EnvRename ==
    /\ nenv < MaxEnv
    /\ \E i \in 1..Len(container), n \in BlobNames :
         /\ ~Contains(Names(container), n)
         /\ container' = [container EXCEPT ![i] = Descriptor(n, nenv + 1)]
    /\ nenv' = nenv + 1
    /\ UNCHANGED <<pc, call, client, requests, blob_files, blob_filenames>>
    /\ UNCHANGED <<frame_vars, plot_vars>>

NextBlob ==
    \/ CallListBlobFiles
    \/ CallReadCsvFromBlob
    \/ Validate
    \/ CreateClient
    \/ ListFiles
    \/ ListNames
    \/ DownloadBlob
    \/ Return
    \/ EnvAdd
    \/ EnvDelete
    \/ EnvRename

SpecBlob == InitBlob /\ [][NextBlob]_vars

(* =============================== claims =============================== *)
Failed == last.err # ""
ColumnSum(f, c) == SumSeq([i \in 1..NRows(f) |-> IF IsNa(f.rows[i][c]) THEN 0 ELSE f.rows[i][c].n])

\* C1: fill_nan applies nothing partially: when a listed column is absent the
\* call raises the unknown-column error and the held dataset is the dataset
\* held before the call, the listed columns before the absent one included.
C1_NoPartialFill ==
    (last.op = "fill_nan" /\ \E c \in Range(last.cols) : ~HasCol(pre, c))
        => (last.err = "ValueError" /\ df = pre)

\* C2 as stated: filter_by_column and filter_out_data with a column label that
\* is not in the dataset complete without an error and leave an empty result.
C2_UnknownColumnYieldsEmpty ==
    (last.op \in {"filter_by_column", "filter_out_data"} /\ ~HasCol(pre, last.cols[1]))
        => (last.err = "" /\ NRows(df) = 0)

\* C2 amended: filter_by_column and filter_out_data with a column label that is
\* not in the dataset raise KeyError and leave the held dataset, and the object
\* holding it, as they were.
C2_UnknownColumnRaises ==
    (last.op \in {"filter_by_column", "filter_out_data"} /\ ~HasCol(pre, last.cols[1]))
        => (last.err = "KeyError" /\ df = pre)
C2_Witness ==
    /\ last.op = "filter_out_data" /\ ~HasCol(pre, last.cols[1])
    /\ NRows(pre) = MaxRows /\ last.err = "KeyError"

\* C3: list_blob_files returns two parallel sequences: the names and the
\* descriptors have the same length and names[i] is the name of
\* descriptors[i], also when another party changes the container while the
\* call runs.
C3_ParallelSequences ==
    (pc = "done" /\ call.fn = "list_blob_files") => blob_filenames = Names(blob_files)

\* C4: argument validation is fail-fast: a call with an argument that is not a
\* str ends in TypeError with no client created and no request sent, and every
\* call that created a client or sent a request had only str arguments.
AllStr(args) == \A i \in 1..Len(args) : isinstance_str(args[i].value)
C4_FailFast ==
    /\ (client \/ requests > 0) => AllStr(call.args)
    /\ (pc \notin {"idle", "validate"} /\ ~AllStr(call.args))
          => (pc = "TypeError" /\ ~client /\ requests = 0)
C4_Witness ==
    /\ pc = "TypeError" /\ call.fn = "list_blob_files"
    /\ isinstance_str(call.args[1].value) /\ ~isinstance_str(call.args[2].value)
    /\ ~client /\ requests = 0

\* C5: a dataset obtained from return_dataframe keeps its columns, column
\* types and cell values through every later transformation of the BlobData.
C5_CopyOnWrite == snap # 0 => heap[snap] = snap_orig

\* C6: after a successful filter_by_column(c, v) on an existing column,
\* collect_unique_column_values(c) returns the one-element list [v] (equal to v
\* under the frame's typed equality) when v occurred in column c and the empty
\* list when it did not, and filtering again by (c, v) leaves the same dataset.
Occurs(f, c, v) == \E i \in 1..NRows(f) : CellEq(f.rows[i][c], v)
C7_ConservationOfTotal ==
    (last.op = "aggregate_dataframe" /\ ~Failed) =>
        /\ NRows(df) = Cardinality({KeyOf(pre.rows[i], last.cols) : i \in 1..NRows(pre)})
        /\ \A c \in Range(last.cols2) : ColumnSum(df, c) = ColumnSum(pre, c)

\* C8 as stated: after melt_dataframe the output has input rows times
\* len(value_vars) rows, every output row carries the id cells of its input
\* row, and every (id tuple, variable) pair occurs in at most one output row.
MeltSource(r, f) == ((r - 1) % NRows(f)) + 1
MeltShape ==
    /\ NRows(df) = NRows(pre) * Len(last.cols2)
    /\ \A r \in 1..NRows(df) :
         /\ KeyOf(df.rows[r], last.cols) = KeyOf(pre.rows[MeltSource(r, pre)], last.cols)
         /\ df.rows[r]["k"] = LabelText(last.cols2[((r - 1) \div NRows(pre)) + 1])
         /\ LET out == df.rows[r]["v"]
                in == pre.rows[MeltSource(r, pre)][df.rows[r]["k"].s[1]]
            IN out = in \/ CellEq(out, in)
PairCount(f, ids, key, var) ==
    Cardinality({r \in 1..NRows(f) : KeyOf(f.rows[r], ids) = key /\ f.rows[r]["k"] = var})
C8_PairsUnique ==
    (last.op = "melt_dataframe" /\ ~Failed) =>
        /\ MeltShape
        /\ \A r \in 1..NRows(df) : PairCount(df, last.cols, KeyOf(df.rows[r], last.cols), df.rows[r]["k"]) <= 1

\* C8 amended: after melt_dataframe (value_vars distinct labels that are not
\* id_vars) the output has input rows times len(value_vars) rows, output row r
\* carries the id cells of input row ((r-1) mod N)+1 with the label and the
\* cell of one value column, and every (id tuple, variable) pair occurs in as
\* many output rows as there are input rows with that id tuple.
C8_PairsPerInputRow ==
    (last.op = "melt_dataframe" /\ ~Failed) =>
        /\ MeltShape
        /\ \A r \in 1..NRows(df) :
             PairCount(df, last.cols, KeyOf(df.rows[r], last.cols), df.rows[r]["k"])
               = Cardinality({i \in 1..NRows(pre) :
                                KeyOf(pre.rows[i], last.cols) = KeyOf(df.rows[r], last.cols)})
C8_Witness ==
    /\ last.op = "melt_dataframe" /\ ~Failed
    /\ last.cols = <<"g">> /\ Len(last.cols2) = 2
    /\ NRows(pre) = 2 /\ pre.rows[1]["g"] = pre.rows[2]["g"] /\ pre.rows[1] # pre.rows[2]
    /\ NRows(df) = 4

\* C9: a successful fill_nan([x], value) on a dataset with column x leaves no
\* missing cell in x, keeps every cell of x that was not missing, leaves
\* every other column, the row count and the column order as they were.
C9_FillOneColumn ==
    (last.op = "fill_nan" /\ Len(last.cols) = 1 /\ ~Failed) =>
        LET x == last.cols[1]
        IN /\ df.cols = pre.cols
           /\ NRows(df) = NRows(pre)
           /\ \A i \in 1..NRows(df) :
                /\ ~IsNa(df.rows[i][x])
                /\ ~IsNa(pre.rows[i][x]) => df.rows[i][x] = pre.rows[i][x]
                /\ IsNa(pre.rows[i][x]) => CellEq(df.rows[i][x], last.v)
                /\ \A c \in Range(df.cols) \ {x} : df.rows[i][c] = pre.rows[i][c]
           /\ \A c \in Range(df.cols) \ {x} : df.dtype[c] = pre.dtype[c]
C9_Witness ==
    /\ last.op = "fill_nan" /\ last.cols = <<"x">> /\ ~Failed
    /\ NRows(pre) = 2
    /\ IsNa(pre.rows[1]["x"]) /\ ~IsNa(pre.rows[2]["x"])
    /\ \E c \in Range(pre.cols) \ {"x"} : IsNa(pre.rows[2][c])

\* C10: collect_unique_column_values on an unknown column, a to-datetime
\* conversion of a column with an unparseable value, create_year_column on a
\* column that is not datetime, and cast_column on a column with a value that
\* cannot be converted all end in an error, and whenever one of these four
\* methods raises the held dataset (columns, types, rows) is the dataset held
\* before the call.
SingleColumnOps ==
    {"collect_unique_column_values", "convert_column_to_datetime", "create_year_column",
     "cast_column"}
MustFail ==
    LET c == last.cols[1]
        ser == Column(pre, c)
    IN \/ ~HasCol(pre, c)
       \/ /\ last.op = "convert_column_to_datetime"
          /\ \E i \in 1..Len(ser) : ser[i].t = "txt" /\ ~IsDateText(ser[i].s)
       \/ /\ last.op = "create_year_column"
          /\ pre.dtype[c] # "datetime64"
       \/ /\ last.op = "cast_column"
          /\ \E i \in 1..Len(ser) : ~CanCast(ser[i], last.ty)
C10_StrongExceptionSafety ==
    last.op \in SingleColumnOps =>
        /\ MustFail => Failed
        /\ Failed => (df = pre /\ heap = [heap EXCEPT ![self_df] = pre])
        /\ (last.op = "collect_unique_column_values" /\ ~HasCol(pre, last.cols[1]))
              => last.err = "ValueError"
C10_Witness ==
    /\ last.op = "cast_column" /\ last.cols = <<"x">> /\ last.ty = "int" /\ Failed
    /\ NRows(pre) = 2
    /\ pre.rows[1]["x"].t = "flt" /\ IsNa(pre.rows[2]["x"])

(* ============================ PlotlyPlotter ============================ *)
MaxPlots == 3       \* PlotlyPlotter method calls after construction

\* keyword options: a function from option names to values
One(k, v) == [j \in {k} |-> v]
\* {**a, **b}: a new dict with the keys of both, the value of b where both
\* have the key
Merge(a, b) == [k \in (DOMAIN a) \cup (DOMAIN b) |-> IF k \in DOMAIN b THEN b[k] ELSE a[k]]

KwargsChoices ==
    { NoKwargs, One("x", "g"), One("x", "z"), One("title", "g"), One("title", "z"),
      One("names", "g"), Merge(One("x", "g"), One("title", "g")) }
PlotKinds == {"scatter", "line", "bar", "area", "pie"}
MetricArgs == {"g", "x", "z"}
PlotRows == {r \in CsvRows : \A c \in Range(Header) : r[c] # Empty}

\* the options a plotly express function takes, and those naming a column
AcceptedKeys(kind) == IF kind = "pie" THEN {"names", "title"} ELSE {"x", "title"}
ColumnKeys == {"x", "names"}
NoLayout == [grouped |-> FALSE, categoryarray |-> <<>>, uniformtext_minsize |-> 0,
             uniformtext_mode |-> ""]

\* px.<kind>(self.df, **params): an option the function does not take is a
\* TypeError, an option naming a column the frame lacks a ValueError, else a
\* new figure
px(kind, frame, params, id) ==
    IF \E k \in DOMAIN params : k \notin AcceptedKeys(kind) THEN [err |-> "TypeError", fig |-> NoneFig]
    ELSE IF \E k \in (DOMAIN params) \cap ColumnKeys : ~HasCol(frame, params[k])
    THEN [err |-> "ValueError", fig |-> NoneFig]
    ELSE [err |-> "", fig |-> [id |-> id, kind |-> kind, params |-> params, layout |-> NoLayout]]

\* variant: params is default_kwargs itself, updated with the call's options
MergeParams_update(defaults, kwargs) ==
    [params |-> Merge(defaults, kwargs), defaults |-> Merge(defaults, kwargs)]
\* params = {**self.default_kwargs, **kwargs}: the merged options and the
\* default_kwargs the statement leaves
MergeParams(defaults, kwargs) == [params |-> Merge(defaults, kwargs), defaults |-> defaults]

\* the body shared by plot_scatter, plot_line, plot_bar, plot_area, plot_pie:
\* self.fig is assigned only when the plotly express call returns
plot(kind, kwargs) ==
    LET m == MergeParams(default_kwargs, kwargs)
        r == px(kind, plot_df, m.params, nfig + 1)
    IN /\ nplots < MaxPlots
       /\ default_kwargs' = m.defaults
       /\ fig' = IF r.err = "" THEN r.fig ELSE fig
       /\ nfig' = IF r.err = "" THEN nfig + 1 ELSE nfig
       /\ plot_last' = [op |-> kind, kwargs |-> kwargs, metric |-> "", called |-> TRUE,
                        passed |-> m.params, err |-> r.err,
                        ret |-> IF r.err = "" THEN r.fig.id ELSE 0]
       /\ nplots' = nplots + 1
       /\ UNCHANGED <<plot_df, default_orig>>
       /\ UNCHANGED <<frame_vars, blob_vars>>

UniformtextMinsize == 8
\* sorted(self.df[groupby_metric])
Sorted(series) ==
    LET keys == SortKeys([i \in 1..Len(series) |-> <<series[i]>>])
    IN [i \in 1..Len(keys) |-> keys[i][1]]
\* self.fig.update_layout(...): the attribute of self.fig is looked up before
\* the arguments are evaluated, so a None figure raises AttributeError; the
\* figure object is updated in place and returned
group_x_axis(figure, frame, groupby_metric) ==
    IF figure = NoneFig THEN [err |-> "AttributeError", fig |-> figure]
    ELSE IF ~HasCol(frame, groupby_metric) THEN [err |-> "KeyError", fig |-> figure]
    ELSE [err |-> "",
          fig |-> [figure EXCEPT !.layout =
                      [grouped |-> TRUE, categoryarray |-> Sorted(Column(frame, groupby_metric)),
                       uniformtext_minsize |-> UniformtextMinsize, uniformtext_mode |-> "hide"]]]

\* PlotlyPlotter(df, **kwargs)
InitPlot ==
    /\ heap = [o \in ObjIds |-> NoFrame]
    /\ self_df = 1
    /\ snap = 0
    /\ snap_orig = NoFrame
    /\ pre = NoFrame
    /\ last = NoCall
    /\ nops = 0
    /\ pc = "idle"
    /\ call = [fn |-> "", args |-> <<>>]
    /\ client = FALSE
    /\ requests = 0
    /\ container = <<>>
    /\ blob_files = <<>>
    /\ blob_filenames = <<>>
    /\ nenv = 0
    /\ \E lines \in SeqsUpTo(PlotRows, MaxRows) : plot_df = read_csv(lines)
    /\ \E kwargs \in KwargsChoices : default_kwargs = kwargs /\ default_orig = kwargs
    /\ fig = NoneFig
    /\ nfig = 0
    /\ plot_last = NoPlotCall
    /\ nplots = 0

PlotScatter == \E kwargs \in KwargsChoices : plot("scatter", kwargs)
PlotLine == \E kwargs \in KwargsChoices : plot("line", kwargs)
PlotBar == \E kwargs \in KwargsChoices : plot("bar", kwargs)
PlotArea == \E kwargs \in KwargsChoices : plot("area", kwargs)
PlotPie == \E kwargs \in KwargsChoices : plot("pie", kwargs)

GroupXAxis ==
    /\ nplots < MaxPlots
    /\ \E metric \in MetricArgs :
         LET r == group_x_axis(fig, plot_df, metric)
         IN /\ fig' = r.fig
            /\ plot_last' = [op |-> "group_x_axis", kwargs |-> NoKwargs, metric |-> metric,
                             called |-> FALSE, passed |-> NoKwargs, err |-> r.err,
                             ret |-> IF r.err = "" THEN r.fig.id ELSE 0]
    /\ nplots' = nplots + 1
    /\ UNCHANGED <<plot_df, default_kwargs, default_orig, nfig>>
    /\ UNCHANGED <<frame_vars, blob_vars>>

NextPlot ==
    \/ PlotScatter
    \/ PlotLine
    \/ PlotBar
    \/ PlotArea
    \/ PlotPie
    \/ GroupXAxis

SpecPlot == InitPlot /\ [][NextPlot]_vars

\* C11: every plot_* call passes to the charting library the default options
\* merged with the call's options, the call's value winning for every key in
\* both; the call leaves default_kwargs as constructed; self.fig is the figure
\* created for the most recent plot_* call that returned one, and is None
\* before the first, so that group_x_axis then raises and returns no figure.
C11_MergedOptions ==
    /\ default_kwargs = default_orig
    /\ (plot_last.op \in PlotKinds) =>
          /\ plot_last.called
          /\ DOMAIN plot_last.passed = (DOMAIN default_orig) \cup (DOMAIN plot_last.kwargs)
          /\ \A k \in DOMAIN plot_last.passed :
                plot_last.passed[k] = IF k \in DOMAIN plot_last.kwargs THEN plot_last.kwargs[k]
                                      ELSE default_orig[k]
          /\ plot_last.err = "" =>
                /\ fig.id = plot_last.ret /\ fig.id = nfig
                /\ fig.kind = plot_last.op /\ fig.params = plot_last.passed
    /\ fig.id = nfig
    /\ nfig = 0 => fig = NoneFig
    /\ (plot_last.op = "group_x_axis" /\ nfig = 0) =>
          (plot_last.err = "AttributeError" /\ plot_last.ret = 0)
    /\ (plot_last.op = "group_x_axis" /\ plot_last.err = "") => plot_last.ret = nfig
C11_Witness ==
    /\ plot_last.op \in PlotKinds /\ plot_last.err = ""
    /\ nfig = 2 /\ nplots = 2
    /\ "x" \in DOMAIN default_orig /\ "x" \notin DOMAIN plot_last.kwargs
    /\ "title" \in (DOMAIN default_orig) \cap (DOMAIN plot_last.kwargs)
    /\ plot_last.kwargs["title"] # default_orig["title"]
    /\ fig.params["x"] = default_orig["x"] /\ fig.params["title"] = plot_last.kwargs["title"]

====
